---- MODULE Spec2Model ----
(***************************************************************************)
(* Model of lib/origin.js: the class composer `extend`, the Base class it  *)
(* builds (parent, cls, extend, inheritsFrom, superclass) and instance     *)
(* construction, and of the Responder class: the registry of callbacks     *)
(* (on, off), the bindings a listener keeps (bindTo, unbindFrom,           *)
(* unbindFromAll) and the dispatch of events (trigger, repeat).            *)
(*                                                                         *)
(* Classes are numbered in creation order: 1 is Base, 2 is Responder, the  *)
(* rest are made by the Extend action.  0 stands for the host's Object, the *)
(* parent Base is composed from.  A JavaScript object with named members is *)
(* a function from the names of its own enumerable members to values.      *)
(***************************************************************************)
EXTENDS Integers, Sequences, FiniteSets, TLC

VARIABLES classes, fnClass, instances, last,
          responderCallbacks, responderBindings

vars == <<classes, fnClass, instances, last,
          responderCallbacks, responderBindings>>

----------------------------------------------------------------------------
(* Bounds *)

MaxClasses == 4

----------------------------------------------------------------------------
(* Values.  A value is identified by a name; the pass-through constructor  *)
(* that extend creates when no initializer is given is a fresh closure per *)
(* extend call, identified by the class it was created for.                *)

Val(n) == [name |-> n, of |-> 0]

Undefined == Val("undefined")

ObjectFn == Val("Object")

PassThrough(id) == [name |-> "passThrough", of |-> id]

FunctionNames ==
    { "Object", "passThrough", "init1", "m1", "m2",
      "Base.parent", "Base.cls", "Base.extend", "Base.inheritsFrom",
      "Base.superclass", "Responder.initializer", "Responder.on",
      "Responder.off", "Responder.bindTo", "Responder.unbindFrom",
      "Responder.unbindFromAll", "Responder.trigger", "Responder.repeat" }

\* property instanceof Function
IsFunction(v) == v.name \in FunctionNames

EmptyMap == [k \in {} |-> Undefined]

\* the assignments target[key] = source[key] for every own key of source
Assign(target, source) ==
    [k \in DOMAIN target \cup DOMAIN source |->
        IF k \in DOMAIN source THEN source[k] ELSE target[k]]

----------------------------------------------------------------------------
(* extend(parent, options) *)

OptProperties(options) ==
    IF "properties" \in DOMAIN options THEN options.properties ELSE EmptyMap

OptClassProperties(options) ==
    IF "classProperties" \in DOMAIN options THEN options.classProperties ELSE EmptyMap

\* the constructor: options.initializer, or a new pass-through closure
OptConstructor(options, id) ==
    IF "initializer" \in DOMAIN options THEN options.initializer ELSE PassThrough(id)

\* prototype.constructor = constructor, then every key of properties
ExtendPrototype(constructor, properties) ==
    Assign([k \in {"constructor"} |-> constructor], properties)

\* Object.keys(parent): the class-level members of the parent; the host's
\* Object has no enumerable member
ClassKeys(cs, parent) == IF parent = 0 THEN EmptyMap ELSE cs[parent].statics

\* a class property given as undefined does not replace the parent's
ExtendStaticsKeepDefined(parentStatics, classProperties) ==
    LET copied == [k \in {j \in DOMAIN parentStatics :
                            \/ j \notin DOMAIN classProperties
                            \/ classProperties[j] = Undefined} |-> parentStatics[k]]
    IN  Assign([k \in DOMAIN classProperties |-> classProperties[k]], copied)

\* the parent's class members not defined by classProperties are copied
\* down, then every key of classProperties is copied in
ExtendStatics(parentStatics, classProperties) ==
    LET copied == [k \in {j \in DOMAIN parentStatics :
                            \/ j \notin DOMAIN classProperties
                            \/ classProperties[j] = Undefined} |-> parentStatics[k]]
    IN  Assign(copied, classProperties)

\* The class extend returns.  _parent is the stamp of line 69: among the
\* keys copied down from the parent it is the one that line overwrites, so
\* it is kept apart from the other class-level members.
ExtendClass(cs, parent, options) ==
    LET id == Len(cs) + 1
        constructor == OptConstructor(options, id)
    IN  [ _parent   |-> parent,
          prototype |-> ExtendPrototype(constructor, OptProperties(options)),
          statics   |-> ExtendStatics(ClassKeys(cs, parent), OptClassProperties(options)),
          options   |-> options ]

\* prototype.constructor._class = constructorFunc
StampClass(fc, cls, id) ==
    (cls.prototype["constructor"] :> id) @@ fc

----------------------------------------------------------------------------
(* The two classes the module builds when it is loaded *)

BaseOptions ==
    [ properties      |-> [ parent |-> Val("Base.parent"), cls |-> Val("Base.cls") ],
      classProperties |-> [ extend       |-> Val("Base.extend"),
                            inheritsFrom |-> Val("Base.inheritsFrom"),
                            superclass   |-> Val("Base.superclass") ] ]

ResponderOptions ==
    [ initializer |-> Val("Responder.initializer"),
      properties  |-> [ on            |-> Val("Responder.on"),
                        off           |-> Val("Responder.off"),
                        bindTo        |-> Val("Responder.bindTo"),
                        unbindFrom    |-> Val("Responder.unbindFrom"),
                        unbindFromAll |-> Val("Responder.unbindFromAll"),
                        trigger       |-> Val("Responder.trigger"),
                        repeat        |-> Val("Responder.repeat") ] ]

Base == ExtendClass(<<>>, 0, BaseOptions)

Responder == ExtendClass(<<Base>>, 1, ResponderOptions)

----------------------------------------------------------------------------
(* Inputs *)

\* the options a caller passes to extend: none at all, and bundles that
\* give or omit each of initializer, properties and classProperties
OptionBundles ==
    { EmptyMap,
      [ initializer     |-> Val("init1"),
        properties      |-> [ on |-> Val("m1"), value |-> Val("v1") ],
        classProperties |-> [ helper |-> Val("s1") ] ],
      [ properties      |-> [ on |-> Val("m2") ],
        classProperties |-> [ helper |-> Val("s2"), other |-> Val("s1") ] ],
      [ initializer     |-> Val("init1"),
        properties      |-> [ value |-> Val("v2") ],
        classProperties |-> [ helper |-> Undefined ] ] }

\* the arguments of a constructor call or of a method call
ArgLists == { <<"a1", "a2">> }

\* the member names read or called through parent()
MemberNames == { "on", "value" }

----------------------------------------------------------------------------
(* What the last operation did: the functions it applied (calls), what it  *)
(* returned, whether it threw.                                             *)

Call(fn, this, args) == [fn |-> fn, this |-> this, args |-> args]

\* what a function returns is decided by the function, its receiver and
\* its arguments
ResultOf(fn, this, args) == [resultOf |-> fn, this |-> this, args |-> args]

NoOp ==
    [ op |-> "none", receiver |-> 0, cls |-> 0, key |-> "", args |-> <<>>,
      threw |-> FALSE, returned |-> Undefined, calls |-> <<>> ]

----------------------------------------------------------------------------
(* Construction: new C(args) *)

\* a pass-through that applies the parent's constructor without arguments
RECURSIVE ApplyConstructorNoArguments(_, _, _, _)
ApplyConstructorNoArguments(cs, fn, this, args) ==
    IF fn.name = "passThrough"
    THEN LET parent == cs[fn.of]._parent
         IN  IF parent = 0
             THEN <<Call(ObjectFn, this, <<>>)>>
             ELSE ApplyConstructorNoArguments(cs, cs[parent].prototype["constructor"], this, <<>>)
    ELSE <<Call(fn, this, args)>>

\* constructor.apply(this, arguments): an initializer is applied; the
\* pass-through closure of class id applies its parent's
\* prototype.constructor to the same receiver and arguments
RECURSIVE ApplyConstructor(_, _, _, _)
ApplyConstructor(cs, fn, this, args) ==
    IF fn.name = "passThrough"
    THEN LET parent == cs[fn.of]._parent
         IN  IF parent = 0
             THEN <<Call(ObjectFn, this, args)>>
             ELSE ApplyConstructor(cs, cs[parent].prototype["constructor"], this, args)
    ELSE <<Call(fn, this, args)>>

\* an instance that is also given the members of its parent's prototype
NewInstanceWithParentMembers(cs, c) ==
    [proto |-> c,
     own   |-> Assign(IF cs[c]._parent = 0 THEN EmptyMap
                      ELSE cs[cs[c]._parent].prototype,
                      cs[c].prototype)]

\* constructorFunc: every own key of the class's prototype is copied into
\* the new object, whose prototype link is the class's prototype
NewInstance(cs, c) == [proto |-> c, own |-> cs[c].prototype]

----------------------------------------------------------------------------
(* The prototype chain *)

\* the prototypes met from the prototype of class c upwards by
\* Object.getPrototypeOf: each class's prototype was created from its
\* parent's, and the last one is the host's Object.prototype (0)
RECURSIVE PrototypeChain(_, _)
PrototypeChain(cs, c) ==
    IF c = 0 THEN <<0>> ELSE <<c>> \o PrototypeChain(cs, cs[c]._parent)

\* the own enumerable members of a prototype; Object.prototype has none
OwnMembers(cs, level) == IF level = 0 THEN EmptyMap ELSE cs[level].prototype

\* prototype.constructor
ConstructorOf(cs, level) ==
    IF level = 0 THEN ObjectFn ELSE cs[level].prototype["constructor"]

\* reading a member from the root downwards: the least-derived level that
\* has it wins
LookupFromRoot(cs, level, key) ==
    LET chain == PrototypeChain(cs, level)
        holders == {n \in 1..Len(chain) : key \in DOMAIN OwnMembers(cs, chain[n])}
    IN  IF holders = {} THEN Undefined
        ELSE OwnMembers(cs, chain[CHOOSE n \in holders : \A m \in holders : m <= n])[key]

\* reading a member through a prototype: the nearest level that has it
RECURSIVE Lookup(_, _, _)
Lookup(cs, level, key) ==
    IF key \in DOMAIN OwnMembers(cs, level) THEN OwnMembers(cs, level)[key]
    ELSE IF level = 0 THEN Undefined
    ELSE Lookup(cs, cs[level]._parent, key)

\* reading a member of an instance: its own copy, else its prototype's
GetMember(cs, inst, key) ==
    IF key \in DOMAIN inst.own THEN inst.own[key] ELSE Lookup(cs, inst.proto, key)

----------------------------------------------------------------------------
(* Base.properties: parent(cls) and cls() *)

\* a shim that applies the member without a receiver
ShimUnbound(property, context) == [shim |-> TRUE, property |-> property, context |-> 0]

Shim(property, context) == [shim |-> TRUE, property |-> property, context |-> context]

Plain(property) == [shim |-> FALSE, property |-> property, context |-> 0]

\* a function member becomes a shim that applies it to the context, any
\* other member is passed as it is
CreateShims(prototype, context) ==
    [key \in DOMAIN prototype |->
        IF IsFunction(prototype[key])
        THEN Shim(prototype[key], context)
        ELSE Plain(prototype[key])]

\* the levels from the receiver's own class up to the first whose
\* constructor is that of cls
PrototypeListUpTo(cs, c, cls) ==
    LET chain == PrototypeChain(cs, c)
        found == {n \in 1..Len(chain) :
                     ConstructorOf(cs, chain[n]) = ConstructorOf(cs, cls)}
    IN  IF found = {} THEN <<>>
        ELSE SubSeq(chain, 1, CHOOSE n \in found : \A m \in found : n <= m)

\* the crawl up the prototype chain of the receiver: from the first
\* prototype whose constructor is cls.prototype.constructor on, every
\* prototype is saved
PrototypeList(cs, c, cls) ==
    LET chain == PrototypeChain(cs, c)
        found == {n \in 1..Len(chain) :
                     ConstructorOf(cs, chain[n]) = ConstructorOf(cs, cls)}
    IN  IF found = {} THEN <<>>
        ELSE SubSeq(chain, CHOOSE n \in found : \A m \in found : n <= m, Len(chain))

\* the saved prototypes are popped from the end of the list, and the shims
\* of each are copied over those collected so far
RECURSIVE MethodShims(_, _, _)
MethodShims(cs, prototypeList, context) ==
    IF prototypeList = <<>> THEN EmptyMap
    ELSE Assign(MethodShims(cs, Tail(prototypeList), context),
                CreateShims(OwnMembers(cs, Head(prototypeList)), context))

\* this.parent(cls), for the instance numbered this
Parent(cs, insts, this, cls) ==
    LET prototypeList == PrototypeList(cs, insts[this].proto, cls)
    IN  IF prototypeList = <<>>
        THEN [threw |-> TRUE, shims |-> EmptyMap]
        ELSE [threw |-> FALSE, shims |-> MethodShims(cs, prototypeList, this)]

\* this.cls(): this.constructor._class
Cls(cs, fc, inst) == fc[GetMember(cs, inst, "constructor")]

----------------------------------------------------------------------------
(* Base.classProperties: inheritsFrom(cls) and superclass() *)

InheritsFrom(cs, c, cls) ==
    LET chain == PrototypeChain(cs, c)
    IN  \E n \in 1..Len(chain) :
            ConstructorOf(cs, chain[n]) = ConstructorOf(cs, cls)

Superclass(cs, c) == cs[c]._parent

----------------------------------------------------------------------------
(* Actions *)

Init ==
    /\ classes = <<Base, Responder>>
    /\ fnClass = StampClass(StampClass(EmptyMap, Base, 1), Responder, 2)
    /\ instances = <<>>
    /\ last = NoOp
    /\ responderCallbacks = <<>>
    /\ responderBindings = <<>>

\* P.extend(options): extend.apply(null, [this, childOptions])
Extend(p, options) ==
    /\ Len(classes) < MaxClasses
    /\ "extend" \in DOMAIN classes[p].statics
    /\ classes[p].statics["extend"] = Val("Base.extend")
    /\ LET cls == ExtendClass(classes, p, options)
       IN  /\ classes' = Append(classes, cls)
           /\ fnClass' = StampClass(fnClass, cls, Len(classes) + 1)
    /\ last' = [NoOp EXCEPT !.op = "extend", !.cls = p]
    /\ UNCHANGED <<instances, responderCallbacks, responderBindings>>

\* new C(args); the program holds one instance at a time, a new one
\* takes the place of the one before
New(c, args) ==
    /\ LET this == 1
       IN  /\ instances' = <<NewInstance(classes, c)>>
           /\ last' = [NoOp EXCEPT !.op = "new", !.receiver = this, !.cls = c,
                                   !.args = args,
                                   !.calls = ApplyConstructor(classes,
                                        classes[c].prototype["constructor"], this, args)]
    /\ UNCHANGED <<classes, fnClass, responderCallbacks, responderBindings>>

\* this.parent(cls)[key](args): the member key of the mapping parent
\* returns is read and, when it is a shim, called with args
CallSuper(this, cls, key, args) ==
    /\ LET r == Parent(classes, instances, this, cls)
           super == [NoOp EXCEPT !.op = "super", !.receiver = this, !.cls = cls]
       IN  last' =
             IF r.threw THEN [super EXCEPT !.threw = TRUE]
             ELSE IF key \notin DOMAIN r.shims
                  THEN [super EXCEPT !.key = key, !.args = args]
             ELSE IF r.shims[key].shim
                  THEN LET property == r.shims[key].property
                           context  == r.shims[key].context
                       IN  [super EXCEPT !.key = key, !.args = args,
                                !.calls = <<Call(property, context, args)>>,
                                !.returned = ResultOf(property, context, args)]
             ELSE [super EXCEPT !.key = key, !.args = args,
                                !.returned = r.shims[key].property]
    /\ UNCHANGED <<classes, fnClass, instances, responderCallbacks,
                   responderBindings>>

Next ==
    \/ \E p \in 1..Len(classes), options \in OptionBundles : Extend(p, options)
    \/ \E c \in 1..Len(classes), args \in ArgLists : New(c, args)
    \/ \E this \in 1..Len(instances), cls \in 1..Len(classes),
          key \in MemberNames, args \in ArgLists : CallSuper(this, cls, key, args)

Spec == Init /\ [][Next]_vars

----------------------------------------------------------------------------
(* Notions the properties are stated with, taken from the calls that were  *)
(* made: a class's parent is the class extend was called on, its options   *)
(* are the options that call was given.                                    *)

ClassIds == 1..Len(classes)

InstanceIds == 1..Len(instances)

\* the class itself and every class reached from it by repeated superclass()
RECURSIVE Lineage(_, _)
Lineage(cs, c) == IF c = 0 THEN {} ELSE {c} \cup Lineage(cs, Superclass(cs, c))

StrictAncestors(cs, c) == Lineage(cs, c) \ {c}

\* the instance template of the data model: the parent's template
\* overridden per key by the class's own properties
RECURSIVE Template(_, _)
Template(cs, c) ==
    IF c = 0 THEN EmptyMap
    ELSE Assign(Template(cs, Superclass(cs, c)), OptProperties(cs[c].options))

\* the members available in a class: its template and its constructor
Available(cs, c) ==
    Assign(Template(cs, c), [k \in {"constructor"} |-> ConstructorOf(cs, c)])

HasInitializer(cs, c) == "initializer" \in DOMAIN cs[c].options

\* the most-derived class of c's lineage that a condition holds of
Nearest(cs, c, S) ==
    CHOOSE a \in Lineage(cs, c) \cap S :
        \A b \in Lineage(cs, c) \cap S : a \in Lineage(cs, b) => a = b

\* the level parent(cls) starts collecting at: the most-derived class of
\* the receiver's lineage whose constructor function is that of cls
SameConstructor(cs, c, cls) ==
    {a \in Lineage(cs, c) : ConstructorOf(cs, a) = ConstructorOf(cs, cls)}

----------------------------------------------------------------------------
(* C1 *)

----------------------------------------------------------------------------
(* C2 *)

\* C2: for every instance and every composed class, parent(cls) throws the
\* ancestor-not-found error exactly when cls is neither the instance's own
\* class nor one of its ancestors.
C2_ThrowsIffNotAncestor ==
    \A this \in InstanceIds : \A cls \in ClassIds :
        Parent(classes, instances, this, cls).threw
            <=> cls \notin Lineage(classes, instances[this].proto)

----------------------------------------------------------------------------
(* C3 *)

\* C3: for every instance, cls() is exactly the class the instance was
\* constructed from.
C3_ClsIsExactClass ==
    \A this \in InstanceIds :
        Cls(classes, fnClass, instances[this]) = instances[this].proto

----------------------------------------------------------------------------
(* C4 *)

\* C4: a class made by extending Parent has superclass() = Parent, and
\* inheritsFrom(Y) is true for every Y reached by repeated superclass() and
\* false for every composed class Y that is neither the class nor reached
\* that way.
C4_SuperclassAndInheritsFrom ==
    /\ last.op = "extend" => Superclass(classes, Len(classes)) = last.cls
    /\ \A c \in ClassIds : \A Y \in ClassIds :
          /\ Y \in StrictAncestors(classes, c) => InheritsFrom(classes, c, Y)
          /\ Y \notin Lineage(classes, c) => ~InheritsFrom(classes, c, Y)

----------------------------------------------------------------------------
(* C5 *)

\* C5: an extend call changes nothing of the classes that exist: their
\* instance template, class-level members, superclass(), the results of
\* inheritsFrom, and the result of cls() on their instances, those created
\* before the call and those created after it.
C5_ExtendLeavesClassesAlone ==
    [][ Len(classes') > Len(classes) =>
          /\ \A P \in ClassIds :
                /\ classes'[P] = classes[P]
                /\ Superclass(classes', P) = Superclass(classes, P)
                /\ \A Y \in ClassIds :
                      InheritsFrom(classes', P, Y) = InheritsFrom(classes, P, Y)
                /\ Cls(classes', fnClass', NewInstance(classes', P))
                      = Cls(classes, fnClass, NewInstance(classes, P))
          /\ \A this \in InstanceIds :
                Cls(classes', fnClass', instances'[this])
                      = Cls(classes, fnClass, instances[this]) ]_vars

----------------------------------------------------------------------------
(* C6 *)

\* C6: reading a member on an instance yields the value given by the
\* most-derived class of its lineage whose properties define the name
\* (undefined when none does), so a child's entry shadows its parent's for
\* the child's instances only.
C6_MostDerivedPropertyWins ==
    \A this \in InstanceIds :
        LET C == instances[this].proto
            defining(key) == {a \in Lineage(classes, C) :
                                key \in DOMAIN OptProperties(classes[a].options)}
        IN  \A key \in MemberNames \cup DOMAIN Template(classes, C) :
                GetMember(classes, instances[this], key) =
                    IF defining(key) = {} THEN Undefined
                    ELSE classes[Nearest(classes, C, defining(key))].options.properties[key]

\* C6 witness: an instance of a class whose properties shadow the `on` of
\* its parent, which has a second child that does not define `on`
C6_Witness ==
    /\ last.op = "new"
    /\ LET B == instances[last.receiver].proto
           A == Superclass(classes, B)
       IN  /\ A # 0
           /\ "on" \in DOMAIN OptProperties(classes[B].options)
           /\ "on" \in DOMAIN Template(classes, A)
           /\ GetMember(classes, instances[last.receiver], "on") # Template(classes, A)["on"]
           /\ \E S \in ClassIds \ {B} :
                /\ Superclass(classes, S) = A
                /\ "on" \notin DOMAIN OptProperties(classes[S].options)

----------------------------------------------------------------------------
(* C7 *)

\* C7: calling a shim of parent(cls) on an instance applies the underlying
\* method once with `this` the instance and with the arguments of the call,
\* and returns what the method returns; a member that is no function is
\* passed through as its value, and nothing is applied.
C7_ShimBindsReceiver ==
    (last.op = "super" /\ ~last.threw) =>
        LET C == instances[last.receiver].proto
            start == Nearest(classes, C, SameConstructor(classes, C, last.cls))
            property == Lookup(classes, start, last.key)
        IN  IF IsFunction(property)
            THEN /\ last.calls = <<Call(property, last.receiver, last.args)>>
                 /\ last.returned = ResultOf(property, last.receiver, last.args)
            ELSE /\ last.calls = <<>>
                 /\ last.returned = property

\* C7 witness: a shim was called with two arguments
C7_Witness ==
    /\ last.op = "super" /\ ~last.threw
    /\ Len(last.calls) = 1
    /\ last.calls[1].this = last.receiver
    /\ last.receiver \in InstanceIds
    /\ Len(last.args) = 2

----------------------------------------------------------------------------
(* C8 *)

\* C8: for an instance and its own class or an ancestor cls, parent(cls)
\* has exactly the members available in cls as keys, each bound to the
\* definition cls resolves for it, whatever the classes between the
\* instance's class and cls define.
C8_ParentIsViewOfClass ==
    \A this \in InstanceIds :
        \A cls \in Lineage(classes, instances[this].proto) :
            LET r == Parent(classes, instances, this, cls)
            IN  /\ ~r.threw
                /\ DOMAIN r.shims = DOMAIN Available(classes, cls)
                /\ \A key \in DOMAIN r.shims :
                       r.shims[key].property = Available(classes, cls)[key]

----------------------------------------------------------------------------
(* C9 *)

----------------------------------------------------------------------------
(* C10 *)

\* the applications of a function other than the host's Object
UserCalls(calls) == SelectSeq(calls, LAMBDA call : call.fn # ObjectFn)

\* C10: constructing an instance of a class composed without an
\* initializer applies, once, the initializer of the nearest ancestor that
\* was given one, with `this` the new instance and the arguments of the
\* construction; when no ancestor was given one, no initializer is applied.
C10_NearestInitializerRuns ==
    (last.op = "new" /\ ~HasInitializer(classes, last.cls)) =>
        LET given == {a \in Lineage(classes, last.cls) : HasInitializer(classes, a)}
        IN  /\ ~last.threw
            /\ UserCalls(last.calls) =
                 IF given = {} THEN <<>>
                 ELSE <<Call(classes[Nearest(classes, last.cls, given)].options.initializer,
                             last.receiver, last.args)>>

\* C10 witness: the class has no initializer, nor has its parent, and an
\* ancestor above them has one, which was applied
C10_Witness ==
    /\ last.op = "new" /\ ~HasInitializer(classes, last.cls)
    /\ LET P == Superclass(classes, last.cls)
       IN  /\ P # 0
           /\ ~HasInitializer(classes, P)
           /\ Len(UserCalls(last.calls)) = 1
           /\ last.calls[1].this = last.receiver
           /\ last.calls[1].args = <<"a1", "a2">>

----------------------------------------------------------------------------
(* Responder.  A responder keeps _responderCallbacks, a mapping from the   *)
(* event names that have a list to that list of registrations, and         *)
(* _responderBindings, the list of the bindings it made on other           *)
(* responders.  A name that has an empty list is not the same as a name    *)
(* that has none: the list is an object and an object is truthy.           *)

MaxRegistrations == 2

MaxBindings == 1

True == Val("true")

False == Val("false")

Null == Val("null")

\* what an `if`, a `!` and a `||` take for true
Truthy(v) == v \notin {Undefined, Null, False}

Registration(callback, context) == [callback |-> callback, context |-> context]

Binding(obj, eventName, callback, context) ==
    [obj |-> obj, eventName |-> eventName, callback |-> callback,
     context |-> context]

\* the member a value names: mapping[undefined] reads the member "undefined"
Key(eventName) == eventName.name

Put(mapping, key, value) ==
    [k \in DOMAIN mapping \cup {key} |-> IF k = key THEN value ELSE mapping[k]]

Delete(mapping, key) == [k \in DOMAIN mapping \ {key} |-> mapping[k]]

\* a difference that keeps no member of list
DifferenceKeepsNone(list, removes) == <<>>

\* und.difference(list, removes): the members of list that are not among
\* removes, in the order of list
Difference(list, removes) ==
    SelectSeq(list, LAMBDA e : \A i \in 1..Len(removes) : removes[i] # e)

\* an on that registers whatever is registered already
OnAppends(registry, eventName, callback, context) ==
    LET name == IF Truthy(eventName) THEN eventName ELSE Val("all")
        list == IF Key(name) \in DOMAIN registry THEN registry[Key(name)] ELSE <<>>
    IN  IF Truthy(callback)
        THEN [returned |-> True,
              callbacks |-> Put(registry, Key(name),
                                Append(list, Registration(callback, context)))]
        ELSE [returned |-> False, callbacks |-> registry]

\* on(eventName, callback, context)
On(registry, eventName, callback, context) ==
    LET name == IF Truthy(eventName) THEN eventName ELSE Val("all")
    IN  IF Truthy(callback)
        THEN LET listed == IF Key(name) \in DOMAIN registry
                           THEN registry
                           ELSE Put(registry, Key(name), <<>>)
                 list == listed[Key(name)]
                 callbackExists ==
                     \E i \in 1..Len(list) : /\ list[i].callback = callback
                                             /\ list[i].context = context
             IN  IF ~callbackExists
                 THEN [returned |-> True,
                       callbacks |-> Put(listed, Key(name),
                                         Append(list, Registration(callback, context)))]
                 ELSE [returned |-> False, callbacks |-> listed]
        ELSE [returned |-> False, callbacks |-> registry]

\* off(eventName, callback, context); OffEach is the und.each of the forms
\* without a name, calling off again for every name of the registry
RECURSIVE Off(_, _, _, _)
RECURSIVE OffEach(_, _, _, _)
Off(registry, eventName, callback, context) ==
    LET key == Key(eventName)
        has == key \in DOMAIN registry
    IN  IF has /\ Truthy(callback)
        THEN LET removes == SelectSeq(registry[key], LAMBDA cb :
                                cb.callback = callback /\ cb.context = context)
             IN  IF Len(removes) > 0
                 THEN [returned |-> True,
                       callbacks |-> Put(registry, key,
                                         Difference(registry[key], removes))]
                 ELSE [returned |-> False, callbacks |-> registry]
        ELSE IF has /\ ~Truthy(callback) /\ Truthy(context)
        THEN LET removes == SelectSeq(registry[key], LAMBDA cb :
                                cb.context = context)
             IN  IF Len(removes) > 0
                 THEN [returned |-> True,
                       callbacks |-> Put(registry, key,
                                         Difference(registry[key], removes))]
                 ELSE [returned |-> False, callbacks |-> registry]
        ELSE IF has /\ ~Truthy(callback)
        THEN [returned |-> True, callbacks |-> Delete(registry, key)]
        ELSE IF ~Truthy(eventName) /\ Truthy(callback)
        THEN OffEach(registry, DOMAIN registry, callback, Undefined)
        ELSE IF ~Truthy(eventName) /\ ~Truthy(callback) /\ Truthy(context)
        THEN OffEach(registry, DOMAIN registry, Null, context)
        ELSE IF ~Truthy(eventName) /\ ~Truthy(callback) /\ ~Truthy(context)
        THEN IF Cardinality(DOMAIN registry) > 0
             THEN [returned |-> True, callbacks |-> EmptyMap]
             ELSE [returned |-> False, callbacks |-> registry]
        ELSE [returned |-> False, callbacks |-> registry]

OffEach(registry, names, callback, context) ==
    IF names = {}
    THEN [returned |-> False, callbacks |-> registry]
    ELSE LET eventName == CHOOSE n \in names : TRUE
             one  == Off(registry, Val(eventName), callback, context)
             rest == OffEach(one.callbacks, names \ {eventName}, callback, context)
         IN  [returned  |-> IF Truthy(one.returned) THEN one.returned
                            ELSE rest.returned,
              callbacks |-> rest.callbacks]

\* a bindTo that keeps a record whether or not obj.on registered
BindToAlwaysRecords(cbs, bnds, this, obj, eventName, callback, context) ==
    LET r == On(cbs[obj], eventName, callback, context)
    IN  [returned  |-> r.returned,
         callbacks |-> [cbs EXCEPT ![obj] = r.callbacks],
         bindings  |-> [bnds EXCEPT ![this] =
                           Append(@, Binding(obj, eventName, callback, context))]]

\* this.bindTo(obj, eventName, callback, context)
BindTo(cbs, bnds, this, obj, eventName, callback, context) ==
    LET r == On(cbs[obj], eventName, callback, context)
    IN  IF Truthy(r.returned)
        THEN [returned  |-> True,
              callbacks |-> [cbs EXCEPT ![obj] = r.callbacks],
              bindings  |-> [bnds EXCEPT ![this] =
                                Append(@, Binding(obj, eventName, callback, context))]]
        ELSE [returned  |-> False,
              callbacks |-> [cbs EXCEPT ![obj] = r.callbacks],
              bindings  |-> bnds]

\* an unbindFrom that hands back what obj.off returned
UnbindFromReturnsOff(cbs, bnds, this, obj, eventName, callback, context) ==
    LET r == Off(cbs[obj], eventName, callback, context)
    IN  [returned  |-> r.returned,
         callbacks |-> [cbs EXCEPT ![obj] = r.callbacks],
         bindings  |-> IF Truthy(r.returned)
                       THEN [bnds EXCEPT ![this] = SelectSeq(@, LAMBDA binding :
                                 binding # Binding(obj, eventName, callback, context))]
                       ELSE bnds]

\* this.unbindFrom(obj, eventName, callback, context): nothing is returned
\* when obj.off fails
UnbindFrom(cbs, bnds, this, obj, eventName, callback, context) ==
    LET r == Off(cbs[obj], eventName, callback, context)
    IN  IF Truthy(r.returned)
        THEN LET removals == SelectSeq(bnds[this], LAMBDA binding :
                                 /\ binding.obj = obj
                                 /\ binding.eventName = eventName
                                 /\ binding.callback = callback
                                 /\ binding.context = context)
             IN  [returned  |-> IF Len(removals) > 0 THEN True ELSE False,
                  callbacks |-> [cbs EXCEPT ![obj] = r.callbacks],
                  bindings  |-> [bnds EXCEPT ![this] = Difference(@, removals)]]
        ELSE [returned  |-> Undefined,
              callbacks |-> [cbs EXCEPT ![obj] = r.callbacks],
              bindings  |-> bnds]

\* the und.each of unbindFromAll: off on the source of every binding, in
\* the order of the list
RECURSIVE OffBindings(_, _)
OffBindings(cbs, list) ==
    IF list = <<>> THEN cbs
    ELSE LET binding == Head(list)
             r == Off(cbs[binding.obj], binding.eventName, binding.callback,
                      binding.context)
         IN  OffBindings([cbs EXCEPT ![binding.obj] = r.callbacks], Tail(list))

\* this.unbindFromAll()
UnbindFromAll(cbs, bnds, this) ==
    [returned  |-> True,
     callbacks |-> OffBindings(cbs, bnds[this]),
     bindings  |-> [bnds EXCEPT ![this] = <<>>]]

----------------------------------------------------------------------------
(* Dispatch.  An object has an identity of its own: the registrations of a *)
(* list are identified by the list and their place in it, an event record  *)
(* by a number (0 is the record trigger builds, the n-th clone is n).      *)

\* this._responderCallbacks[name] || []
Listed(registry, name) ==
    IF Key(name) \in DOMAIN registry
    THEN [i \in 1..Len(registry[Key(name)]) |->
            [id |-> <<Key(name), i>>, callback |-> registry[Key(name)][i].callback,
             context |-> registry[Key(name)][i].context]]
    ELSE <<>>

\* und.union keeps the first occurrence of every object
RECURSIVE Uniq(_, _)
Uniq(list, seen) ==
    IF list = <<>> THEN <<>>
    ELSE IF Head(list).id \in seen THEN Uniq(Tail(list), seen)
    ELSE <<Head(list)>> \o Uniq(Tail(list), seen \cup {Head(list).id})

UnionKeepsAll(eventCallbacks, allCallbacks) == eventCallbacks \o allCallbacks

Union(eventCallbacks, allCallbacks) == Uniq(eventCallbacks \o allCallbacks, {})

EventObject(sender, eventName, eventData) ==
    [id |-> 0, sender |-> sender, name |-> eventName, payload |-> eventData]

CloneIsSame(event, n) == event

\* und.clone(event): another object with the same members
Clone(event, n) == [event EXCEPT !.id = n]

\* what a callback that writes to the event it was given leaves behind
Written(event) == [event EXCEPT !.payload = Val("written")]

ErrorOf(callback) == [name |-> "error", of |-> callback.name]

RepeatGoesOn(callbacks, i, event, throws, writes) == FALSE

\* whether the und.each of repeat is left at the i-th callback
RepeatStops(callbacks, i, event, throws, writes) == callbacks[i].callback = throws

\* the und.each of repeat from the i-th callback on; throws is the callback
\* that throws when it is called, writes tells whether the callbacks write
\* to the event they are given; event is the record of repeat as the
\* callbacks before the i-th left it
RECURSIVE RepeatEach(_, _, _, _, _)
RepeatEach(callbacks, i, event, throws, writes) ==
    IF i > Len(callbacks)
    THEN [threw |-> FALSE, returned |-> Undefined, calls |-> <<>>]
    ELSE LET cb == callbacks[i]
             eventClone == Clone(event, i)
             call == Call(cb.callback, cb.context, <<eventClone>>)
             left == IF writes /\ eventClone.id = event.id
                     THEN Written(event) ELSE event
         IN  IF RepeatStops(callbacks, i, event, throws, writes)
             THEN [threw |-> TRUE, returned |-> ErrorOf(cb.callback),
                   calls |-> <<call>>]
             ELSE LET rest == RepeatEach(callbacks, i + 1, left, throws, writes)
                  IN  [rest EXCEPT !.calls = <<call>> \o @]

\* a repeat that takes the callbacks of "all" before those of the name
RepeatAllFirst(registry, event, throws, writes) ==
    RepeatEach(Union(Listed(registry, Val("all")), Listed(registry, event.name)),
               1, event, throws, writes)

\* repeat(event)
Repeat(registry, event, throws, writes) ==
    LET eventCallbacks == Listed(registry, event.name)
        allCallbacks   == Listed(registry, Val("all"))
        callbacks      == Union(eventCallbacks, allCallbacks)
    IN  RepeatEach(callbacks, 1, event, throws, writes)

\* trigger(eventName, eventData)
Trigger(registry, this, eventName, eventData, throws, writes) ==
    Repeat(registry, EventObject(this, eventName, eventData), throws, writes)

----------------------------------------------------------------------------
(* The calls made on responders *)

Responders == {1, 2}

\* the responder that binds and the responder it binds to
Listeners == {1}

Sources == {2}

EventNames == { Undefined, Val("x") }

Callbacks == { Val("cb1"), Val("cb2") }

Contexts == { Undefined, Val("ctx1") }

\* the callback and the context a call is given; either may be left out
Handlers ==
    { <<Val("cb1"), Undefined>>, <<Val("cb1"), Val("ctx1")>>,
      <<Val("cb2"), Undefined>>, <<Undefined, Undefined>>,
      <<Undefined, Val("ctx1")>> }

Payloads == { Val("data") }

\* the number of registrations an object holds
RECURSIVE Registered(_)
Registered(registry) ==
    IF DOMAIN registry = {} THEN 0
    ELSE LET k == CHOOSE k \in DOMAIN registry : TRUE
         IN  Len(registry[k]) + Registered(Delete(registry, k))

ResponderOp(op, this, returned) ==
    [NoOp EXCEPT !.op = op, !.receiver = this, !.returned = returned]

\* new Responder() for every responder: the initializer
InitResponders ==
    /\ classes = <<Base, Responder>>
    /\ fnClass = StampClass(StampClass(EmptyMap, Base, 1), Responder, 2)
    /\ instances = <<>>
    /\ last = NoOp
    /\ responderCallbacks = [o \in Responders |-> EmptyMap]
    /\ responderBindings = [o \in Responders |-> <<>>]

CallOn(this, eventName, callback, context) ==
    /\ LET r == On(responderCallbacks[this], eventName, callback, context)
       IN  /\ Registered(r.callbacks) <= MaxRegistrations
           /\ responderCallbacks' = [responderCallbacks EXCEPT ![this] = r.callbacks]
           /\ last' = ResponderOp("on", this, r.returned)
    /\ UNCHANGED <<classes, fnClass, instances, responderBindings>>

CallOff(this, eventName, callback, context) ==
    /\ LET r == Off(responderCallbacks[this], eventName, callback, context)
       IN  /\ responderCallbacks' = [responderCallbacks EXCEPT ![this] = r.callbacks]
           /\ last' = ResponderOp("off", this, r.returned)
    /\ UNCHANGED <<classes, fnClass, instances, responderBindings>>

CallBindTo(this, obj, eventName, callback, context) ==
    /\ LET r == BindTo(responderCallbacks, responderBindings, this, obj,
                       eventName, callback, context)
       IN  /\ Registered(r.callbacks[obj]) <= MaxRegistrations
           /\ Len(r.bindings[this]) <= MaxBindings
           /\ responderCallbacks' = r.callbacks
           /\ responderBindings' = r.bindings
           /\ last' = ResponderOp("bindTo", this, r.returned)
    /\ UNCHANGED <<classes, fnClass, instances>>

CallUnbindFrom(this, obj, eventName, callback, context) ==
    /\ LET r == UnbindFrom(responderCallbacks, responderBindings, this, obj,
                           eventName, callback, context)
       IN  /\ responderCallbacks' = r.callbacks
           /\ responderBindings' = r.bindings
           /\ last' = ResponderOp("unbindFrom", this, r.returned)
    /\ UNCHANGED <<classes, fnClass, instances>>

CallUnbindFromAll(this) ==
    /\ LET r == UnbindFromAll(responderCallbacks, responderBindings, this)
       IN  /\ responderCallbacks' = r.callbacks
           /\ responderBindings' = r.bindings
           /\ last' = ResponderOp("unbindFromAll", this, r.returned)
    /\ UNCHANGED <<classes, fnClass, instances>>

\* this.trigger(eventName, eventData), the callbacks behaving as throws and
\* writes tell; what is kept of the call includes that behaviour
CallTrigger(this, eventName, eventData, throws, writes) ==
    /\ LET r == Trigger(responderCallbacks[this], this, eventName, eventData,
                        throws, writes)
       IN  last' = [op |-> "trigger", receiver |-> this,
                    args |-> <<eventName, eventData>>,
                    throws |-> throws, writes |-> writes,
                    threw |-> r.threw, returned |-> r.returned,
                    calls |-> r.calls]
    /\ UNCHANGED <<classes, fnClass, instances, responderCallbacks,
                   responderBindings>>

NextResponders ==
    \/ \E this \in Sources, eventName \in EventNames, h \in Handlers :
            CallOn(this, eventName, h[1], h[2])
    \/ \E this \in Sources, eventName \in EventNames, h \in Handlers :
            CallOff(this, eventName, h[1], h[2])
    \/ \E this \in Listeners, obj \in Sources, eventName \in EventNames,
          h \in Handlers :
            CallBindTo(this, obj, eventName, h[1], h[2])
    \/ \E this \in Listeners, obj \in Sources, eventName \in EventNames,
          h \in Handlers :
            CallUnbindFrom(this, obj, eventName, h[1], h[2])
    \/ \E this \in Listeners : CallUnbindFromAll(this)

\* registrations, bindings and their removal
SpecResponders == InitResponders /\ [][NextResponders]_vars

NextDispatch ==
    \/ \E this \in Sources, eventName \in EventNames, h \in Handlers :
            CallOn(this, eventName, h[1], h[2])
    \/ \E this \in Sources, eventName \in EventNames, h \in Handlers :
            CallOff(this, eventName, h[1], h[2])
    \/ \E this \in Sources, eventName \in EventNames \cup {Val("all")},
          eventData \in Payloads, throws \in Callbacks \cup {Undefined},
          writes \in BOOLEAN :
            CallTrigger(this, eventName, eventData, throws, writes)

\* registrations and the dispatch of events to them
SpecDispatch == InitResponders /\ [][NextDispatch]_vars

----------------------------------------------------------------------------
(* Notions the properties of responders are stated with *)

\* the registrations filed under a name, none when the name has no list
ListOf(registry, name) ==
    IF name \in DOMAIN registry THEN registry[name] ELSE <<>>

\* the name a registration made with eventName is filed under
FiledUnder(eventName) == IF eventName = Undefined THEN "all" ELSE eventName.name

Holds(list, callback, context) ==
    \E i \in 1..Len(list) : list[i] = Registration(callback, context)

----------------------------------------------------------------------------
(* C11: under no event name does a responder's list ever hold two          *)
(* registrations with the same callback and the same context, whatever     *)
(* sequence of on, off, bindTo, unbindFrom and unbindFromAll led to it.    *)
(* on returns true exactly when it adds a registration, which it puts last *)
(* under the name (under "all" when no name is given); it returns false    *)
(* when the pair is registered under that name already or no callback is   *)
(* given, and the registrations are then what they were.                   *)

C11_NoDuplicateRegistration ==
    /\ \A o \in Responders : \A name \in DOMAIN responderCallbacks[o] :
         LET list == responderCallbacks[o][name]
         IN  \A i, j \in 1..Len(list) :
               (list[i].callback = list[j].callback
                  /\ list[i].context = list[j].context) => i = j
    /\ \A o \in Responders, eventName \in EventNames, h \in Handlers :
         LET registry == responderCallbacks[o]
             r        == On(registry, eventName, h[1], h[2])
             name     == FiledUnder(eventName)
             adds     == /\ h[1] # Undefined
                         /\ ~Holds(ListOf(registry, name), h[1], h[2])
         IN  /\ r.returned = (IF adds THEN True ELSE False)
             /\ adds => /\ r.callbacks[name] =
                             Append(ListOf(registry, name), Registration(h[1], h[2]))
                        /\ \A other \in (DOMAIN registry \cup DOMAIN r.callbacks) \ {name} :
                             ListOf(r.callbacks, other) = ListOf(registry, other)
             /\ ~adds => r.callbacks = registry

\* on has just refused a pair; the list it is filed under holds two
\* registrations of one callback that differ by their context
C11_Witness ==
    /\ last.op = "on"
    /\ last.returned = False
    /\ \E name \in DOMAIN responderCallbacks[2] :
         LET list == responderCallbacks[2][name]
         IN  /\ Len(list) = 2
             /\ list[1].callback = list[2].callback
             /\ list[1].context # list[2].context

----------------------------------------------------------------------------
(* C12: whatever the form of the call (name, callback and context given or *)
(* left out) and whatever the registry, off returns true exactly when the  *)
(* call removed at least one registration.                                 *)

C12_OffTrueIffRemoved ==
    \A o \in Responders, eventName \in EventNames, h \in Handlers :
      LET registry == responderCallbacks[o]
          r        == Off(registry, eventName, h[1], h[2])
      IN  (r.returned = True) <=> (Registered(r.callbacks) < Registered(registry))

----------------------------------------------------------------------------
(* C13: off called without a name and with a callback removes every        *)
(* registration of that callback under every name, whatever the context    *)
(* the registration was made with.                                         *)

C13_OffCallbackRemovesEveryContext ==
    \A o \in Responders, callback \in Callbacks :
      LET r == Off(responderCallbacks[o], Undefined, callback, Undefined)
      IN  \A name \in DOMAIN r.callbacks : \A i \in 1..Len(r.callbacks[name]) :
            r.callbacks[name][i].callback # callback

----------------------------------------------------------------------------
(* C14: when a listener calls unbindFromAll, the call returns true, the    *)
(* listener's list of bindings is empty afterwards, and of every binding   *)
(* the list held (on whatever source, made with a name or without one and  *)
(* so filed under "all", with or without a context) the registration is    *)
(* gone from the source.                                                   *)

C14_UnbindFromAllRemovesEveryRegistration ==
    \A this \in Listeners :
      LET r == UnbindFromAll(responderCallbacks, responderBindings, this)
      IN  /\ r.returned = True
          /\ r.bindings[this] = <<>>
          /\ \A i \in 1..Len(responderBindings[this]) :
               LET binding == responderBindings[this][i]
               IN  ~Holds(ListOf(r.callbacks[binding.obj], FiledUnder(binding.eventName)),
                          binding.callback, binding.context)

----------------------------------------------------------------------------
(* C15: unbindFrom returns what the off call on the source returned:       *)
(* whenever that call succeeds (it returns true) unbindFrom returns true,  *)
(* the listener's binding records that match (source, eventName, callback, *)
(* context) are removed and its other binding records are kept.  What      *)
(* unbindFrom returns when the off call fails is left open.                *)

----------------------------------------------------------------------------
(* C19: bindTo returns what registering on the source through its on       *)
(* returns.  When the registration succeeds, the source holds it and one   *)
(* binding record {source, eventName, callback, context} is added at the   *)
(* end of the caller's list; when it fails (the pair is registered already *)
(* or no callback is given) the source's registry and the caller's list    *)
(* are what they were.                                                     *)

C19_BindToRecordsWhenRegistered ==
    \A this \in Responders, obj \in Responders, eventName \in EventNames,
       h \in Handlers :
      LET on == On(responderCallbacks[obj], eventName, h[1], h[2])
          r  == BindTo(responderCallbacks, responderBindings, this, obj,
                       eventName, h[1], h[2])
          registers == /\ h[1] # Undefined
                       /\ ~Holds(ListOf(responderCallbacks[obj], FiledUnder(eventName)),
                                 h[1], h[2])
      IN  /\ r.returned = on.returned
          /\ r.returned = (IF registers THEN True ELSE False)
          /\ IF registers
             THEN /\ r.bindings = [responderBindings EXCEPT ![this] =
                        Append(@, Binding(obj, eventName, h[1], h[2]))]
                  /\ r.callbacks = [responderCallbacks EXCEPT ![obj] = on.callbacks]
                  /\ Holds(r.callbacks[obj][FiledUnder(eventName)], h[1], h[2])
             ELSE /\ r.bindings = responderBindings
                  /\ r.callbacks = responderCallbacks

\* bindTo has just failed on a pair the source holds already: the listener
\* keeps the one record of its earlier, successful bindTo
C19_Witness ==
    /\ last.op = "bindTo"
    /\ last.returned = False
    /\ Len(responderBindings[1]) = 1
    /\ LET binding == responderBindings[1][1]
       IN  Holds(ListOf(responderCallbacks[binding.obj], FiledUnder(binding.eventName)),
                 binding.callback, binding.context)

----------------------------------------------------------------------------
(* Notions the properties of a dispatch are stated with.  While the last   *)
(* call is a trigger the registry is the one the trigger found.            *)

\* the registrations a trigger of eventName is to reach, in order: those
\* under the name, then those under "all"; those under "all" alone when the
\* name is "all" itself or is left out
Reached(registry, eventName) ==
    IF eventName \in {Undefined, Val("all")}
    THEN ListOf(registry, "all")
    ELSE ListOf(registry, eventName.name) \o ListOf(registry, "all")

\* the callback and the context (the receiver) of every call made
Invoked(calls) ==
    [i \in 1..Len(calls) |-> Registration(calls[i].fn, calls[i].this)]

\* the event record the i-th call was given
Given(calls, i) == calls[i].args[1]

----------------------------------------------------------------------------
(* C16: a trigger that returns has called, one after the other and before  *)
(* it returned, first the callback of every registration under the name,   *)
(* in the order they were registered, then the callback of every           *)
(* registration under "all", in the order they were registered (those      *)
(* under "all" once when the name is "all" itself), each with the context  *)
(* it was registered with.                                                 *)

C16_NamedThenAllInOrder ==
    (last.op = "trigger" /\ ~last.threw) =>
        Invoked(last.calls) = Reached(responderCallbacks[last.receiver], last.args[1])

\* a trigger of "x" returned on a responder with one registration under "x"
\* and one under "all"
C16_Witness ==
    /\ last.op = "trigger"
    /\ ~last.threw
    /\ last.args[1] = Val("x")
    /\ Len(ListOf(responderCallbacks[last.receiver], "x")) = 1
    /\ Len(ListOf(responderCallbacks[last.receiver], "all")) = 1
    /\ Len(last.calls) = 2

----------------------------------------------------------------------------
(* C17: in a dispatch every callback called is given an event record of    *)
(* its own, another object than the record given to any other callback and *)
(* than the record the dispatch started from, holding the sender, the name *)
(* and the payload of the trigger: what a callback called before wrote to  *)
(* the record it was given is not in it.                                   *)

C17_EachCallbackGetsOwnCopy ==
    last.op = "trigger" =>
        \A i \in 1..Len(last.calls) :
            /\ Given(last.calls, i).sender = last.receiver
            /\ Given(last.calls, i).name = last.args[1]
            /\ Given(last.calls, i).payload = last.args[2]
            /\ Given(last.calls, i).id # EventObject(last.receiver, last.args[1],
                                                     last.args[2]).id
            /\ \A j \in 1..Len(last.calls) :
                 j # i => Given(last.calls, j).id # Given(last.calls, i).id

\* two callbacks were called in a dispatch whose callbacks write to the
\* event they are given
C17_Witness ==
    /\ last.op = "trigger"
    /\ last.writes
    /\ Len(last.calls) = 2

----------------------------------------------------------------------------
(* C18: when a callback that a trigger reaches throws, the trigger throws  *)
(* what the callback threw, the callbacks before the first one that throws *)
(* have been called once each, in order, the one that throws has been      *)
(* called, none after it is called, and the registry is what it was; a     *)
(* trigger that reaches no callback that throws does not throw.            *)

C18_ThrowPropagatesAndHalts ==
    [][last'.op = "trigger" =>
         LET reached == Reached(responderCallbacks[last'.receiver], last'.args[1])
             at == { i \in 1..Len(reached) : reached[i].callback = last'.throws }
         IN  /\ responderCallbacks' = responderCallbacks
             /\ IF at = {} THEN ~last'.threw
                ELSE LET first == CHOOSE i \in at : \A j \in at : i <= j
                     IN  /\ last'.threw
                         /\ last'.returned = ErrorOf(last'.throws)
                         /\ Invoked(last'.calls) = SubSeq(reached, 1, first)]_vars

\* the first of two callbacks reached threw: the second was not called
C18_Witness ==
    /\ last.op = "trigger"
    /\ last.threw
    /\ Len(last.calls) = 1
    /\ Len(Reached(responderCallbacks[last.receiver], last.args[1])) = 2

----------------------------------------------------------------------------
(* C20: in one dispatch no callback is called more than once with the same *)
(* context, whether the name triggered is "all" itself or the same         *)
(* callback and context are registered under the name and under "all".     *)

C20_NoPairInvokedTwice ==
    last.op = "trigger" =>
        \A i, j \in 1..Len(last.calls) :
            Invoked(last.calls)[i] = Invoked(last.calls)[j] => i = j

----------------------------------------------------------------------------
(* C21: off called with a name that has registrations, a callback and a    *)
(* context (or none) removes from the list of that name the registrations  *)
(* whose callback and whose context are both the ones given, a context     *)
(* left out matching only the registrations made without one; the other    *)
(* registrations under the name stay, in the order they had, and the list  *)
(* of every other name is what it was.                                     *)

----------------------------------------------------------------------------
(* C22: every instance holds as its own members, assigned onto it when it  *)
(* is made, a copy of every member of the instance template of its class,  *)
(* those defined by the ancestors of the class as well as those defined by *)
(* the class, so that no member is read through an ancestor.               *)

C22_InstanceHoldsWholeTemplate ==
    \A this \in InstanceIds :
        LET C == instances[this].proto
        IN  \A key \in DOMAIN Template(classes, C) :
              /\ key \in DOMAIN instances[this].own
              /\ instances[this].own[key] = Template(classes, C)[key]

(* C22, amended: every instance holds as its own members, assigned onto it *)
(* when it is made, the constructor of its class and a copy of every       *)
(* member that the properties of its own class define, and no other.  A    *)
(* member of the template that only ancestors define is not copied: it is  *)
(* no member of the instance itself and is read through the prototypes of  *)
(* the ancestors, where the most-derived definition is found.              *)

C22_InstanceHoldsOwnClassMembers ==
    \A this \in InstanceIds :
        LET C    == instances[this].proto
            mine == OptProperties(classes[C].options)
        IN  /\ DOMAIN instances[this].own = DOMAIN mine \cup {"constructor"}
            /\ instances[this].own["constructor"] = ConstructorOf(classes, C)
            /\ \A key \in DOMAIN mine \ {"constructor"} :
                 instances[this].own[key] = mine[key]
            /\ \A key \in DOMAIN Template(classes, C) \ DOMAIN mine :
                 /\ key \notin DOMAIN instances[this].own
                 /\ GetMember(classes, instances[this], key) = Template(classes, C)[key]

\* an instance of a class that defines members of its own and has members
\* that only its ancestors define
C22_Witness ==
    /\ last.op = "new"
    /\ LET C == instances[last.receiver].proto
       IN  /\ DOMAIN OptProperties(classes[C].options) # {}
           /\ DOMAIN Template(classes, C) \ DOMAIN OptProperties(classes[C].options) # {}
           /\ DOMAIN Template(classes, C) \ DOMAIN instances[last.receiver].own # {}

----------------------------------------------------------------------------
(* Dispatch to callbacks that call back into the responder that called     *)
(* them.  The array repeat goes through is the one und.union built when    *)
(* the dispatch started; on pushes to the list of the registry, off puts   *)
(* another list in its place or deletes it.                                *)

Deed(op, eventName, callback, context) ==
    [op |-> op, eventName |-> eventName, callback |-> callback,
     context |-> context]

\* what the callbacks of a dispatch do when they are called: nothing, or a
\* call of on, off, unbindFrom or unbindFromAll on the sender
Deeds ==
    { Deed("none", Undefined, Undefined, Undefined),
      Deed("on", Val("x"), Val("cb2"), Undefined),
      Deed("on", Undefined, Val("cb1"), Val("ctx1")),
      Deed("off", Val("x"), Undefined, Undefined),
      Deed("off", Undefined, Undefined, Undefined),
      Deed("unbindFrom", Val("x"), Val("cb1"), Undefined),
      Deed("unbindFromAll", Undefined, Undefined, Undefined) }

\* the call a callback makes on the sender
Do(cbs, bnds, this, deed) ==
    IF deed.op = "on"
    THEN [callbacks |-> [cbs EXCEPT ![this] =
                            On(@, deed.eventName, deed.callback, deed.context).callbacks],
          bindings  |-> bnds]
    ELSE IF deed.op = "off"
    THEN [callbacks |-> [cbs EXCEPT ![this] =
                            Off(@, deed.eventName, deed.callback, deed.context).callbacks],
          bindings  |-> bnds]
    ELSE IF deed.op = "unbindFrom"
    THEN LET r == UnbindFrom(cbs, bnds, this, this, deed.eventName,
                             deed.callback, deed.context)
         IN  [callbacks |-> r.callbacks, bindings |-> r.bindings]
    ELSE IF deed.op = "unbindFromAll"
    THEN LET r == UnbindFromAll(cbs, bnds, this)
         IN  [callbacks |-> r.callbacks, bindings |-> r.bindings]
    ELSE [callbacks |-> cbs, bindings |-> bnds]

\* an und.each that reads the lists of the registry anew at every step
CallbacksReadAnew(callbacks, registry, event) ==
    Union(Listed(registry, event.name), Listed(registry, Val("all")))

\* the array und.each goes through while the registry becomes what the
\* callbacks make of it: the array und.union returned
CallbacksOfDispatch(callbacks, registry, event) == callbacks

\* the und.each of repeat from the i-th callback on, every callback called
\* doing the deed; cbs and bnds are the registries and the bindings as the
\* callbacks before the i-th left them
RECURSIVE RepeatEachReentrant(_, _, _, _, _, _, _)
RepeatEachReentrant(callbacks, i, event, this, cbs, bnds, deed) ==
    LET list == CallbacksOfDispatch(callbacks, cbs[this], event)
    IN  IF i > Len(list)
        THEN [calls |-> <<>>, callbacks |-> cbs, bindings |-> bnds]
        ELSE LET cb    == list[i]
                 call  == Call(cb.callback, cb.context, <<Clone(event, i)>>)
                 after == Do(cbs, bnds, this, deed)
                 rest  == RepeatEachReentrant(callbacks, i + 1, event, this,
                                              after.callbacks, after.bindings, deed)
             IN  [rest EXCEPT !.calls = <<call>> \o @]

\* repeat(event) with such callbacks
RepeatReentrant(cbs, bnds, this, event, deed) ==
    LET eventCallbacks == Listed(cbs[this], event.name)
        allCallbacks   == Listed(cbs[this], Val("all"))
        callbacks      == Union(eventCallbacks, allCallbacks)
    IN  RepeatEachReentrant(callbacks, 1, event, this, cbs, bnds, deed)

\* this.trigger(eventName, eventData) with such callbacks
CallTriggerReentrant(this, eventName, eventData, deed) ==
    /\ LET r == RepeatReentrant(responderCallbacks, responderBindings, this,
                                EventObject(this, eventName, eventData), deed)
       IN  /\ Registered(r.callbacks[this]) <= MaxRegistrations
           /\ responderCallbacks' = r.callbacks
           /\ responderBindings' = r.bindings
           /\ last' = [op |-> "trigger", receiver |-> this,
                       args |-> <<eventName, eventData>>,
                       throws |-> Undefined, writes |-> FALSE, does |-> deed,
                       threw |-> FALSE, returned |-> Undefined,
                       calls |-> r.calls]
    /\ UNCHANGED <<classes, fnClass, instances>>

NextReentrant ==
    \/ \E this \in Sources, eventName \in EventNames, h \in Handlers :
            CallOn(this, eventName, h[1], h[2])
    \/ \E this \in Sources, eventName \in EventNames \ {Undefined},
          h \in Handlers :
            CallBindTo(this, this, eventName, h[1], h[2])
    \/ \E this \in Sources, eventName \in {Val("x"), Val("all")},
          eventData \in Payloads, deed \in Deeds :
            CallTriggerReentrant(this, eventName, eventData, deed)

\* registrations, bindings of a responder to itself, and the dispatch of
\* events to callbacks that change them
SpecReentrant == InitResponders /\ [][NextReentrant]_vars

----------------------------------------------------------------------------
(* C23: the callbacks a trigger calls, and their order, are those of the   *)
(* registrations the responder held when the trigger was called: a         *)
(* callback that calls on, off, unbindFrom or unbindFromAll on the sender  *)
(* during the dispatch keeps no registration held at the start from being  *)
(* called and has no registration it adds called in that dispatch; a       *)
(* trigger that follows finds the registry as the callbacks left it.       *)

C23_DispatchListFixedAtStart ==
    [][last'.op = "trigger" =>
         Invoked(last'.calls) =
             Reached(responderCallbacks[last'.receiver], last'.args[1])]_vars

\* two callbacks were called in a dispatch whose callbacks call off(): the
\* first call emptied the registry and the second callback was called all
\* the same
C23_Witness ==
    /\ last.op = "trigger"
    /\ last.does = Deed("off", Undefined, Undefined, Undefined)
    /\ Len(last.calls) = 2
    /\ responderCallbacks[last.receiver] = EmptyMap

====
